---- MODULE Spec2Model ----
(***************************************************************************)
(* A model of src/zeeman/SBE_zeeman.py: the Brillouin-zone mesh builder    *)
(* (hex_mesh), the three gauge right-hand sides built by make_fnumba, the  *)
(* per-path integration loop of sbe_zeeman_solver and emission_exact.      *)
(*                                                                         *)
(* Arithmetic.  The program works on floats and complex floats; the model  *)
(* works on exact integers and Gaussian integers <<re, im>>.               *)
(*  - k-space: a point (x, y) is held as (X, Y) with X = sqrt(3)*x/r and   *)
(*    Y = y/r, r = 2*pi/(sqrt(3)*a) the apothem of the hexagon, both       *)
(*    multiplied by the common denominator of the linspace grids, so that  *)
(*    every grid point, lattice vector and boundary line is an integer.    *)
(*    In these coordinates  y <= 2*pi/(sqrt(3)*a)  reads  Y <= 1  and      *)
(*    sqrt(3)*x + y <= 4*pi/(sqrt(3)*a)  reads  X + Y <= 2.                *)
(*  - time: one integrate call advances the state by one step of the       *)
(*    right-hand side, y + f(t, y) (the unit of time is dt); a call the    *)
(*    integrator reports as failed leaves the state where it was.          *)
(*  - floats that are not finite are outside the model.                    *)
(***************************************************************************)
EXTENDS Integers, Sequences, FiniteSets, TLC

(***************************************************************************)
(* Bounds of the model.                                                    *)
(***************************************************************************)
\* hex_mesh is explored for every Nk1, Nk2 in 1..MaxNk
MaxNk == 6

\* a solver run has Nk1, Nk2 in 1..MaxNkRun and Nt in 1..MaxNt
MaxNkRun == 2

MaxNt == 3

\* mesh is explored for every Nk_in_path in 1..MaxNkLine
MaxNkLine == 5

\* the frequency axis is explored for 2..MaxSamples recorded times that are
\* 1..MaxSpacing steps apart
MaxSamples == 40

MaxSpacing == 3

VARIABLES
    \* ---- the Brillouin zone: hex_mesh(Nk1, Nk2, a, b1, b2, align) or
    \* ---- mesh(params, E_dir)
    BZ_type,          \* params.BZ_type: "full" or "2line"
    line,             \* '2line': E_dir and the lengths mesh reads from params
    Nk1, Nk2, align,  \* 'full': the arguments of hex_mesh; '2line': Nk1 is
                      \* params.Nk_in_path and Nk2 is 2 (lines 235-236)
    hpc,              \* position in hex_mesh: "point", "reflect", "done"
    ia1, ia2,         \* indices of the running a1 (inner) and a2 (outer) loops
    kpoint,           \* the k-point being created / folded
    mesh,             \* list of all k-points
    path_cur,         \* path_M / path_K: the path being filled
    paths,            \* list of finished paths
    \* ---- sbe_zeeman_solver(sys, dipole_k, dipole_B, params)
    params,           \* the retrieved parameters (a record, see InitRun)
    sys,              \* which band/dipole evaluator set is wired in
    pc,               \* position in sbe_zeeman_solver
    i_path,           \* index (from 1) of the path of the  for path in paths  loop
    y0,               \* initial condition of the path, with the appended 0.0
    y,                \* solver.y
    solver_t,         \* solver.t, in steps of dt after t0
    success,          \* solver.successful()
    ti,               \* time counter of the while loop
    path_solution,    \* solution container of the current path
    solution,         \* list of the path solutions; after assembly the 4-axis array
    t,                \* time array
    A_field,          \* vector potential at the times of t
    t_constructed,    \* flag: the time array has been built
    rhs_call,         \* what the latest call of the RHS handed to the evaluators
    \* ---- emission_exact
    i_time, i_pathE,  \* indices (from 0) of its two outer loops
    em_call,          \* what its latest iteration handed to the evaluators
    I_E_dir, I_ortho, \* the two emission series
    \* ---- sbe_zeeman_solver: what a run leaves behind
    failed,           \* the paths (indices from 1) whose loop ended on a failure
    freq,             \* frequency axis, entries <<numerator, denominator>>
    files             \* the save flags and the bundles written

meshvars == <<BZ_type, line, Nk1, Nk2, align, hpc, ia1, ia2, kpoint, mesh,
              path_cur, paths>>

runvars == <<params, sys, pc, i_path, y0, y, solver_t, success, ti,
             path_solution, solution, t, A_field, t_constructed, rhs_call>>

emvars == <<i_time, i_pathE, em_call, I_E_dir, I_ortho>>

outvars == <<failed, freq, files>>

vars == <<meshvars, runvars, emvars, outvars>>

(***************************************************************************)
(* Small helpers.                                                          *)
(***************************************************************************)
Abs(x) == IF x < 0 THEN -x ELSE x

Max(a, b) == IF a < b THEN b ELSE a

VAdd(p, q) == <<p[1] + q[1], p[2] + q[2]>>

VSub(p, q) == <<p[1] - q[1], p[2] - q[2]>>

VScale(c, p) == <<c * p[1], c * p[2]>>

(***************************************************************************)
(* Reciprocal lattice in (X, Y) coordinates (see the header).              *)
(*   b1 = 2*pi/(sqrt(3)*a) * (sqrt(3), -1),  b2 = 4*pi/(sqrt(3)*a) * (0, 1) *)
(* are the vectors sbe_zeeman_solver hands to hex_mesh (params.b1,         *)
(* params.b2): the ones BZ_plot tiles the plane with and the branch        *)
(* comments of reflect_point name (top: b2, top-right: b1 + b2,            *)
(* bottom-right: b1).                                                      *)
(***************************************************************************)
b1 == <<3, -1>>

b2 == <<0, 2>>

\* b_a1 = 8*pi/(a*3) * (1, 0)
b_a1 == <<4, 0>>

\* b_a2 = 4*pi/(a*3) * (1, sqrt(3))
b_a2 == <<2, 2>>

\* (2*pi/a) * (1, 1/sqrt(3)): the fixed shift of the 'K' alignment
KShift_bug == <<4, 0>>

KShift == <<3, 1>>

\* 2*pi/(sqrt(3)*a)
HexTop == 1

\* 4*pi/(sqrt(3)*a)
HexSlant == 2

(***************************************************************************)
(* np.linspace(start, stop, num) on rationals: entry i (from 0) is         *)
(*   start + i*(stop - start)/(num - 1),  and [start] when num = 1.        *)
(* LinNum(...)/LinDen(...) is entry i, for start = sn/sd and stop = en/sd. *)
(***************************************************************************)
LinDen(sd, num) == sd * Max(num - 1, 1)

LinNum(sn, en, num, i) == sn * Max(num - 1, 1) + i * (en - sn)

\* alpha1, alpha2 of hex_mesh as numerators over Den1, Den2 (i, j from 0):
\*  'M': linspace(-0.5 + 1/(2 Nk), 0.5 - 1/(2 Nk), Nk) for both
\*  'K': alpha1 = linspace(-0.5 + 1/(2 Nk1), 1.0 - 1/(2 Nk1), Nk1),
\*       alpha2 = linspace(0, 0.5 - 1/(2 Nk2), Nk2)
Den1(n1, al) == LinDen(2 * n1, n1)

Den2(n2, al) == LinDen(2 * n2, n2)

Alpha1(n1, al, i) ==
    IF al = "M" THEN LinNum(1 - n1, n1 - 1, n1, i)
                ELSE LinNum(1 - n1, 2 * n1 - 1, n1, i)

Alpha2(n2, al, j) ==
    IF al = "M" THEN LinNum(1 - n2, n2 - 1, n2, j)
                ELSE LinNum(0, n2 - 1, n2, j)

\* the common denominator every coordinate of a run is multiplied by
Den(n1, n2, al) == Den1(n1, al) * Den2(n2, al)

\* kpoint = a1*b1 + a2*b2 ('M'),  a1*b_a1 + a2*b_a2 ('K')
GridPoint(n1, n2, al, i, j) ==
    LET c1 == Alpha1(n1, al, i) * Den2(n2, al)
        c2 == Alpha2(n2, al, j) * Den1(n1, al)
    IN  IF al = "M" THEN VAdd(VScale(c1, b1), VScale(c2, b2))
                    ELSE VAdd(VScale(c1, b_a1), VScale(c2, b_a2))

(***************************************************************************)
(* hex_mesh.is_in_hex and hex_mesh.reflect_point; d is the denominator.    *)
(***************************************************************************)
is_in_hex(p, d) ==
    LET px == Abs(p[1])
        py == Abs(p[2])
    IN  (py <= HexTop * d) /\ (px + py <= HexSlant * d)

\* which branch of reflect_point applies to p ("none": p is returned as is)
reflect_branch(p, d) ==
    LET px == p[1]
        py == p[2]
    IN  IF py > HexTop * d THEN "top"
        ELSE IF py < -HexTop * d THEN "bottom"
        ELSE IF px + py > HexSlant * d THEN "top-right"
        ELSE IF -px + py < -HexSlant * d THEN "bot-right"
        ELSE IF px + py < -HexSlant * d THEN "bot-left"
        ELSE IF -px + py > HexSlant * d THEN "top-left"
        ELSE "none"

reflect_point_bug(p, d) ==
    LET br == reflect_branch(p, d)
    IN  CASE br = "top"       -> VSub(p, VScale(d, b2))
          [] br = "bottom"    -> VAdd(p, VScale(d, b2))
          [] br = "top-right" -> VSub(p, VScale(d, b1))
          [] br = "bot-right" -> VSub(p, VScale(d, b1))
          [] br = "bot-left"  -> VAdd(p, VScale(d, VAdd(b1, b2)))
          [] br = "top-left"  -> VAdd(p, VScale(d, b1))
          [] OTHER            -> p

reflect_point(p, d) ==
    LET br == reflect_branch(p, d)
    IN  CASE br = "top"       -> VSub(p, VScale(d, b2))
          [] br = "bottom"    -> VAdd(p, VScale(d, b2))
          [] br = "top-right" -> VSub(p, VScale(d, VAdd(b1, b2)))
          [] br = "bot-right" -> VSub(p, VScale(d, b1))
          [] br = "bot-left"  -> VAdd(p, VScale(d, VAdd(b1, b2)))
          [] br = "top-left"  -> VAdd(p, VScale(d, b1))
          [] OTHER            -> p

\* (a 'K' branch that shifts by the grid vector b_a1)
k_reduce_by_grid_vector(p, d) ==
    IF is_in_hex(p, d) THEN p ELSE VSub(p, VScale(d, b_a1))

\* the 'K' branch of hex_mesh: one fixed shift when the point is outside
k_reduce(p, d) == IF is_in_hex(p, d) THEN p ELSE VSub(p, VScale(d, KShift))

(***************************************************************************)
(* Complex numbers <<re, im>> with integer parts.                          *)
(***************************************************************************)
CRe(z) == z[1]

CIm(z) == z[2]

CReal(r) == <<r, 0>>

CZero == <<0, 0>>

CI == <<0, 1>>

CAdd(a, b) == <<a[1] + b[1], a[2] + b[2]>>

CSub(a, b) == <<a[1] - b[1], a[2] - b[2]>>

CMul(a, b) == <<a[1] * b[1] - a[2] * b[2], a[1] * b[2] + a[2] * b[1]>>

CScale(r, a) == <<r * a[1], r * a[2]>>

CConj(a) == <<a[1], -a[2]>>

\* 2x2 matrices <<<<m00, m01>>, <<m10, m11>> >>: np.matmul, and a*X + b*Y
MatMul(A, B) ==
    [r \in 1..2 |-> [c \in 1..2 |->
        CAdd(CMul(A[r][1], B[1][c]), CMul(A[r][2], B[2][c]))]]

MatLin(a, A, b, B) ==
    [r \in 1..2 |-> [c \in 1..2 |->
        CAdd(CScale(a, A[r][c]), CScale(b, B[r][c]))]]

(***************************************************************************)
(* The parameters sbe_zeeman_solver retrieves.  Units: the electric field  *)
(* and the vector potential are integers in the unit that makes A*E_dir a  *)
(* step of the integer k-grid; occupations are in units of 1/One;          *)
(* energies and the temperature are in units of the 1e-5 threshold of      *)
(* initial_condition.                                                      *)
(***************************************************************************)
gauge == params.gauge

gamma1 == params.gamma1

gamma2 == params.gamma2

E0 == params.E0

B0 == params.B0

mu == params.mu

temperature == params.temperature

e_fermi == params.e_fermi

\* Nt = int((tf-t0)/dt)
Nt == params.Nt

\* dt_out = 1/(2*params.dt), a rational <<numerator, denominator>>
dt_out == params.dt_out

\* E_dir = [1, 0] ('K'), [cos(-30 deg), sin(-30 deg)] ('M'): in the (X, Y)
\* coordinates the direction of (1, 0) and of b1
\* '2line': [cos(angle_inc_E_field), sin(angle_inc_E_field)], the integer
\* vector line.E_dir over its length line.norm
E_dir ==
    IF BZ_type = "2line" THEN line.E_dir
    ELSE IF align = "K" THEN <<1, 0>> ELSE <<3, -1>>

\* Nk_in_path = params.Nk_in_path
Nk_in_path == Nk1

\* dk as <<numerator, denominator>>: 1/Nk1 ('full'),
\* 1.0/Nk_in_path*length_path_in_BZ ('2line', returned by mesh)
dk ==
    IF BZ_type = "full" THEN <<1, Nk1>> ELSE <<line.length, Nk_in_path>>

\* occupation 1 (np.ones) in the model's fixed point
One == 6

(***************************************************************************)
(* Field generators.  The argument n is the time in steps of dt after t0.  *)
(* exp(-t^2/(2 alpha)^2) * sin(2 pi w t (1 + chirp t) + phase) and the     *)
(* chirp-free derivative of make_zeeman_field_derivative are sampled       *)
(* waveforms: only their being fixed functions of time matters.            *)
(***************************************************************************)
time_dep(n) == <<1, -1, 0, 1>>[(n % 4) + 1]

time_dep_deriv(n) == <<-1, 1, 1, 0>>[(n % 4) + 1]

electric_field(n) == E0 * time_dep(n)

zeeman_field(n) ==
    <<mu[1] * B0 * E_dir[2] * params.cos_inc * time_dep(n),
      mu[2] * B0 * E_dir[1] * params.cos_inc * time_dep(n),
      mu[3] * B0 * params.sin_inc * time_dep(n)>>

\* (a derivative that forgets the coupling strengths mu)
zeeman_field_derivative_nomu(n) ==
    <<B0 * E_dir[2] * params.cos_inc * time_dep_deriv(n),
      B0 * E_dir[1] * params.cos_inc * time_dep_deriv(n),
      B0 * params.sin_inc * time_dep_deriv(n)>>

zeeman_field_derivative(n) ==
    <<mu[1] * B0 * E_dir[2] * params.cos_inc * time_dep_deriv(n),
      mu[2] * B0 * E_dir[1] * params.cos_inc * time_dep_deriv(n),
      mu[3] * B0 * params.sin_inc * time_dep_deriv(n)>>

(***************************************************************************)
(* The band/dipole provider (sys, dipole_k, dipole_B) is an external       *)
(* collaborator: opaque evaluators of (kx, ky, m_zee_x, m_zee_y, m_zee_z). *)
(* The model wires in small integer-valued stand-ins that depend on the    *)
(* k-point and on the Zeeman field, so that an evaluation at the wrong     *)
(* point or field shows in the result; sys is the evaluator set wired in.  *)
(***************************************************************************)
\* sys.efjit[0], sys.efjit[1]: valence and conduction band energy
evf(kp, m) == -(1 + ((kp[1] + m[1]) % 2))

ecf(kp, m) == sys + ((kp[1] + 2 * kp[2] + m[3]) % 3)

\* dipole_k.Axfjit / Ayfjit
di_00xf(kp, m) == CReal((kp[2] + m[2]) % 2)

di_01xf(kp, m) == <<1, (kp[1] + kp[2] + m[1]) % 2>>

di_11xf(kp, m) == CReal(-((kp[1] + sys) % 2))

di_00yf(kp, m) == CReal((kp[1] + m[3]) % 2)

di_01yf(kp, m) == <<(kp[2] + sys) % 2, -1>>

di_11yf(kp, m) == CReal((kp[1] + kp[2]) % 2)

\* dipole_B.Mxfjit / Myfjit / Mzfjit
di_00mxf(kp, m) == CReal(1 + (kp[1] % 2))

di_10mxf(kp, m) == <<1, kp[2] % 2>>

di_11mxf(kp, m) == CReal(-(kp[2] % 2))

di_00myf(kp, m) == CReal(kp[2] % 2)

di_10myf(kp, m) == <<kp[1] % 2, 1>>

di_11myf(kp, m) == CReal(1)

di_00mzf(kp, m) == CReal(sys)

di_10mzf(kp, m) == <<1, -(kp[1] % 2)>>

di_11mzf(kp, m) == CReal(-1)

\* sys.hderivfjit[0], sys.hderivfjit[1] (through evaluate_njit_matrix),
\* sys.Uf and sys.Uf_h, for one k-point
hderiv_x(kp, m) ==
    <<<<CReal(1 + (kp[1] % 2)), <<kp[2] % 2, 1>> >>,
      <<<<kp[2] % 2, -1>>, CReal(-(1 + (kp[1] % 2)))>> >>

hderiv_y(kp, m) ==
    <<<<CReal((kp[2] + m[3]) % 2), <<1, kp[1] % 2>> >>,
      <<<<1, -(kp[1] % 2)>>, CReal(-((kp[2] + m[3]) % 2))>> >>

Uf(kp, m) ==
    <<<<CReal(1), <<0, (kp[1] + sys) % 2>> >>,
      <<<<0, (kp[1] + sys) % 2>>, CReal(1)>> >>

Uf_h(kp, m) ==
    <<<<CReal(1), <<0, -((kp[1] + sys) % 2)>> >>,
      <<<<0, -((kp[1] + sys) % 2)>>, CReal(1)>> >>

(***************************************************************************)
(* initial_condition(e_fermi, temperature, e_c), for the conduction-band   *)
(* energies e_c of a path; the result is flattened in 'F' order: the four  *)
(* components of the first k-point, then of the second, ...                *)
(***************************************************************************)
\* the 1e-5 of  temperature > 1e-5, in the unit of temperature
TempThreshold == 1

RECURSIVE Pow2(_)
Pow2(q) == IF q <= 0 THEN 1 ELSE 2 * Pow2(q - 1)

\* 1/(np.exp((e_c-e_fermi)/temperature)+1) in units of 1/One; the
\* exponential is taken to base 2 of the floored quotient
fermi_dirac(ef, temp, ec) ==
    LET q == (ec - ef) \div temp
    IN  IF q >= 0 THEN One \div (Pow2(q) + 1)
                  ELSE (One * Pow2(-q)) \div (Pow2(-q) + 1)

\* the four components (f_v, p_vc, p_cv, f_e) of one k-point
initial_block(ef, temp, ec) ==
    IF temp > TempThreshold
      THEN <<CReal(One), CZero, CZero, CReal(fermi_dirac(ef, temp, ec))>>
      ELSE <<CReal(One), CZero, CZero, CZero>>

initial_condition(ef, temp, e_c) ==
    [j \in 1..(4 * Len(e_c)) |->
        initial_block(ef, temp, e_c[((j - 1) \div 4) + 1])[((j - 1) % 4) + 1]]


(***************************************************************************)
(* make_fnumba: the three right-hand sides.  tn is the time (in steps), yv *)
(* the state vector: 4 complex entries per k-point of the path and a last  *)
(* entry, the vector potential.  Entries are addressed with the indices of *)
(* the code (from 0).                                                      *)
(***************************************************************************)
\* y[j]; the njit-compiled code does not check bounds, so an index past the
\* end reads whatever lies behind the array: the value g
Rd(yv, j, g) == IF j < Len(yv) THEN yv[j + 1] ELSE g

\* y[-1]
Last(yv) == yv[Len(yv)]

\* x[i+2] = x[i+1].conjugate()
x_pcv_noconj(x1) == x1

x_pcv(x1) == CConj(x1)

\* (damping towards zero instead of towards the initial occupation)
pop_damping_to_zero(yi, y0i) == CScale(-gamma1, yi)

\* (damping towards zero at the polarization rate)
pop_damping_gamma2(yi, y0i) == CScale(-gamma2, yi)

\* - gamma1*(y[i]-y0[i])
pop_damping(yi, y0i) == CScale(-gamma1, CSub(yi, y0i))

\* k_shift = -y[-1].real
k_shift_twice(yv) == -2 * CRe(Last(yv))

k_shift(yv) == -CRe(Last(yv))

\* kx, ky of flength: the k-points of the path
length_kpts(yv, kpath) == kpath

\* kx, ky of fvelocity and fvelocity_extra: kpath + E_dir*k_shift
velocity_kpts(yv, kpath) ==
    [k \in 1..Len(kpath) |-> VAdd(kpath[k], VScale(k_shift(yv), E_dir))]

\* dipole_in_path[k] = E_dir[0]*di_01x + E_dir[1]*di_01y
dipole_in_path(kp, m) ==
    CAdd(CScale(E_dir[1], di_01xf(kp, m)), CScale(E_dir[2], di_01yf(kp, m)))

\* A_in_path[k] = E_dir[0]*di_00x + E_dir[1]*di_00y
\*                - (E_dir[0]*di_11x + E_dir[1]*di_11y)
A_in_path(kp, m) ==
    CSub(CAdd(CScale(E_dir[1], di_00xf(kp, m)), CScale(E_dir[2], di_00yf(kp, m))),
         CAdd(CScale(E_dir[1], di_11xf(kp, m)), CScale(E_dir[2], di_11yf(kp, m))))

\* lines 594-602: the offsets m and n of the forward and the backward
\* neighbour of k-point k (from 0) on a path of Nk_path points
neighbour_m(k, Nk_path) ==
    IF k = 0 THEN 4 * (k + 1)
    ELSE IF k = Nk_path - 1 THEN 0
    ELSE 4 * (k + 1)

neighbour_n(k, Nk_path) ==
    IF k = 0 THEN 4 * (Nk_path - 1)
    ELSE IF k = Nk_path - 1 THEN 4 * (k - 1)
    ELSE 4 * (k - 1)

\* the entries x[i], x[i+1], x[i+2], x[i+3] flength writes for k-point k
flength_block(tn, yv, kpath, dkv, y0v, g, k) ==
    LET m_zee == zeeman_field(tn)
        kp == length_kpts(yv, kpath)[k + 1]
        ecv == ecf(kp, m_zee) - evf(kp, m_zee)
        electric_f == electric_field(tn)
        Dc == (electric_f * dkv[2]) \div (2 * dkv[1])
        Nk_path == Len(kpath)
        i == 4 * k
        m == neighbour_m(k, Nk_path)
        n == neighbour_n(k, Nk_path)
        wr == CScale(electric_f, dipole_in_path(kp, m_zee))
        wr_c == CConj(wr)
        wr_d_diag == CScale(electric_f, A_in_path(kp, m_zee))
        x0 == CAdd(CAdd(CReal(2 * CIm(CMul(wr, Rd(yv, i + 1, g)))),
                        CScale(Dc, CSub(Rd(yv, m, g), Rd(yv, n, g)))),
                   pop_damping(Rd(yv, i, g), Rd(y0v, i, g)))
        x1 == CAdd(CSub(CMul(CAdd(<<-gamma2, ecv>>, CMul(CI, wr_d_diag)),
                             Rd(yv, i + 1, g)),
                        CMul(CMul(CI, wr_c),
                             CSub(Rd(yv, i, g), Rd(yv, i + 3, g)))),
                   CScale(Dc, CSub(Rd(yv, m + 1, g), Rd(yv, n + 1, g))))
        x3 == CAdd(CAdd(CReal(-2 * CIm(CMul(wr, Rd(yv, i + 1, g)))),
                        CScale(Dc, CSub(Rd(yv, m + 3, g), Rd(yv, n + 3, g)))),
                   pop_damping(Rd(yv, i + 3, g), Rd(y0v, i + 3, g)))
    IN  <<x0, x1, x_pcv(x1), x3>>

flength(tn, yv, kpath, dkv, y0v, g) ==
    LET blocks == [k \in 0..(Len(kpath) - 1) |->
                      flength_block(tn, yv, kpath, dkv, y0v, g, k)]
    IN  [j \in 1..Len(yv) |->
            IF j = Len(yv) THEN CReal(-electric_field(tn))
            ELSE blocks[(j - 1) \div 4][((j - 1) % 4) + 1]]

\* the entries fvelocity writes for k-point k
fvelocity_block(tn, yv, kpath, dkv, y0v, k) ==
    LET m_zee == zeeman_field(tn)
        kp == velocity_kpts(yv, kpath)[k + 1]
        ecv == ecf(kp, m_zee) - evf(kp, m_zee)
        electric_f == electric_field(tn)
        i == 4 * k
        wr == CScale(electric_f, dipole_in_path(kp, m_zee))
        wr_c == CConj(wr)
        wr_d_diag == CScale(electric_f, A_in_path(kp, m_zee))
        x0 == CAdd(CReal(2 * CIm(CMul(wr, yv[i + 2]))),
                   pop_damping(yv[i + 1], y0v[i + 1]))
        x1 == CSub(CMul(CAdd(<<-gamma2, ecv>>, CMul(CI, wr_d_diag)), yv[i + 2]),
                   CMul(CMul(CI, wr_c), CSub(yv[i + 1], yv[i + 4])))
        x3 == CAdd(CReal(-2 * CIm(CMul(wr, yv[i + 2]))),
                   pop_damping(yv[i + 4], y0v[i + 4]))
    IN  <<x0, x1, x_pcv(x1), x3>>

fvelocity(tn, yv, kpath, dkv, y0v) ==
    LET blocks == [k \in 0..(Len(kpath) - 1) |->
                      fvelocity_block(tn, yv, kpath, dkv, y0v, k)]
    IN  [j \in 1..Len(yv) |->
            IF j = Len(yv) THEN CReal(-electric_field(tn))
            ELSE blocks[(j - 1) \div 4][((j - 1) % 4) + 1]]

\* M_in_path[k] = mxd*di_10mx + myd*di_10my + mzd*di_10mz
M_in_path(kp, m, md) ==
    CAdd(CAdd(CScale(md[1], di_10mxf(kp, m)), CScale(md[2], di_10myf(kp, m))),
         CScale(md[3], di_10mzf(kp, m)))

\* M_diag_in_path[k] = mxd*(di_00mx - di_11mx) + myd*(di_00my - di_11my)
\*                     + mzd*(di_00mz - di_11mz)
M_diag_in_path(kp, m, md) ==
    CAdd(CAdd(CScale(md[1], CSub(di_00mxf(kp, m), di_11mxf(kp, m))),
              CScale(md[2], CSub(di_00myf(kp, m), di_11myf(kp, m)))),
         CScale(md[3], CSub(di_00mzf(kp, m), di_11mzf(kp, m))))

\* the entries fvelocity_extra writes for k-point k
fvelocity_extra_block(tn, yv, kpath, dkv, y0v, k) ==
    LET m_zee == zeeman_field(tn)
        kp == velocity_kpts(yv, kpath)[k + 1]
        ecv == ecf(kp, m_zee) - evf(kp, m_zee)
        electric_f == electric_field(tn)
        m_zee_deriv == zeeman_field_derivative(tn)
        i == 4 * k
        wr == CScale(electric_f, dipole_in_path(kp, m_zee))
        wr_c == CConj(wr)
        wr_d_diag == CScale(electric_f, A_in_path(kp, m_zee))
        mr_d_diag == M_diag_in_path(kp, m_zee, m_zee_deriv)
        mr == M_in_path(kp, m_zee, m_zee_deriv)
        mr_c == CConj(mr)
        x0 == CAdd(CReal(2 * CIm(CMul(CAdd(wr, mr), yv[i + 2]))),
                   pop_damping(yv[i + 1], y0v[i + 1]))
        x1 == CSub(CMul(CAdd(<<-gamma2, ecv>>,
                             CMul(CI, CAdd(wr_d_diag, mr_d_diag))),
                        yv[i + 2]),
                   CMul(CMul(CI, CAdd(wr_c, mr_c)),
                        CSub(yv[i + 1], yv[i + 4])))
        x3 == CAdd(CReal(-2 * CIm(CMul(CAdd(wr, mr), yv[i + 2]))),
                   pop_damping(yv[i + 4], y0v[i + 4]))
    IN  <<x0, x1, x_pcv(x1), x3>>

fvelocity_extra(tn, yv, kpath, dkv, y0v) ==
    LET blocks == [k \in 0..(Len(kpath) - 1) |->
                      fvelocity_extra_block(tn, yv, kpath, dkv, y0v, k)]
    IN  [j \in 1..Len(yv) |->
            IF j = Len(yv) THEN CReal(-electric_field(tn))
            ELSE blocks[(j - 1) \div 4][((j - 1) % 4) + 1]]

\* the dispatch of make_fnumba and the closure f it returns
fnumba(tn, yv, kpath, dkv, y0v, g) ==
    CASE gauge = "velocity"       -> fvelocity(tn, yv, kpath, dkv, y0v)
      [] gauge = "length"         -> flength(tn, yv, kpath, dkv, y0v, g)
      [] gauge = "velocity_extra" -> fvelocity_extra(tn, yv, kpath, dkv, y0v)

\* the k-points the RHS of the gauge hands to the energy and to the dipole
\* evaluators (both are called with the same kx, ky)
rhs_kpts(yv, kpath) ==
    IF gauge = "length" THEN length_kpts(yv, kpath)
                        ELSE velocity_kpts(yv, kpath)

\* solver.integrate(solver.t + dt): the BDF integrator of scipy is taken as
\* one step of the right-hand side over the unit time step
integrate(tn, yv, kpath, dkv, y0v, g) ==
    LET x == fnumba(tn, yv, kpath, dkv, y0v, g)
    IN  [j \in 1..Len(yv) |-> CAdd(yv[j], x[j])]


\* hex_mesh called on its own: sbe_zeeman_solver has not started
RunIdle ==
    /\ params = [gauge |-> "none"]
    /\ sys = 0
    /\ pc = "idle"
    /\ i_path = 0
    /\ y0 = <<>>
    /\ y = <<>>
    /\ solver_t = 0
    /\ success = TRUE
    /\ ti = 0
    /\ path_solution = <<>>
    /\ solution = <<>>
    /\ t = <<>>
    /\ A_field = <<>>
    /\ t_constructed = FALSE
    /\ rhs_call = [gauge |-> "none"]
    /\ i_time = 0
    /\ i_pathE = 0
    /\ em_call = [gauge |-> "none"]
    /\ I_E_dir = <<>>
    /\ I_ortho = <<>>
    /\ failed = {}
    /\ freq = <<>>
    /\ files = [save_file |-> FALSE, save_full |-> FALSE, written |-> <<>>]

(***************************************************************************)
(* hex_mesh, one step per created k-point and per reflect_point call.      *)
(***************************************************************************)
Dn == Den(Nk1, Nk2, align)

\* mesh.append(kpoint); path.append(kpoint); after the last a1 of a row
\* paths.append(path); then the next a1 (or a2)
AppendPoint(p) ==
    /\ mesh' = Append(mesh, p)
    /\ IF ia1 = Nk1 - 1
         THEN /\ paths' = Append(paths, Append(path_cur, p))
              /\ path_cur' = <<>>
              /\ ia1' = 0
              /\ ia2' = ia2 + 1
              /\ hpc' = IF ia2 = Nk2 - 1 THEN "done" ELSE "point"
         ELSE /\ paths' = paths
              /\ path_cur' = Append(path_cur, p)
              /\ ia1' = ia1 + 1
              /\ ia2' = ia2
              /\ hpc' = "point"

\* a k-point that needs no loop: inside the hexagon, or 'K' alignment
HexPoint ==
    /\ hpc = "point"
    /\ LET p == GridPoint(Nk1, Nk2, align, ia1, ia2)
       IN  /\ (align = "K" \/ is_in_hex(p, Dn))
           /\ LET q == IF align = "M" THEN p ELSE k_reduce(p, Dn)
              IN  /\ kpoint' = q
                  /\ AppendPoint(q)
    /\ UNCHANGED <<BZ_type, line, Nk1, Nk2, align>>
    /\ UNCHANGED <<runvars, emvars, outvars>>

\* (a builder that keeps only the points already inside the hexagon)
HexEnterLoop_drop ==
    /\ hpc = "point"
    /\ align = "M"
    /\ ~is_in_hex(GridPoint(Nk1, Nk2, align, ia1, ia2), Dn)
    /\ kpoint' = GridPoint(Nk1, Nk2, align, ia1, ia2)
    /\ IF ia1 = Nk1 - 1
         THEN /\ paths' = Append(paths, path_cur)
              /\ path_cur' = <<>>
              /\ ia1' = 0
              /\ ia2' = ia2 + 1
              /\ hpc' = IF ia2 = Nk2 - 1 THEN "done" ELSE "point"
         ELSE /\ ia1' = ia1 + 1
              /\ UNCHANGED <<paths, path_cur, ia2, hpc>>
    /\ UNCHANGED <<BZ_type, line, Nk1, Nk2, align, mesh>>
    /\ UNCHANGED <<runvars, emvars, outvars>>

\* 'M', outside the hexagon: enter  while (not is_in_hex(kpoint, a))
HexEnterLoop ==
    /\ hpc = "point"
    /\ align = "M"
    /\ ~is_in_hex(GridPoint(Nk1, Nk2, align, ia1, ia2), Dn)
    /\ kpoint' = GridPoint(Nk1, Nk2, align, ia1, ia2)
    /\ hpc' = "reflect"
    /\ UNCHANGED <<BZ_type, line, Nk1, Nk2, align, ia1, ia2, mesh, path_cur, paths>>
    /\ UNCHANGED <<runvars, emvars, outvars>>

\* one iteration: kpoint = reflect_point(kpoint, a, b1, b2)
HexReflect ==
    /\ hpc = "reflect"
    /\ ~is_in_hex(kpoint, Dn)
    /\ kpoint' = reflect_point(kpoint, Dn)
    /\ UNCHANGED <<BZ_type, line, Nk1, Nk2, align, hpc, ia1, ia2, mesh, path_cur, paths>>
    /\ UNCHANGED <<runvars, emvars, outvars>>

\* the loop ends: append the folded point
HexExitLoop ==
    /\ hpc = "reflect"
    /\ is_in_hex(kpoint, Dn)
    /\ AppendPoint(kpoint)
    /\ UNCHANGED <<BZ_type, line, Nk1, Nk2, align, kpoint>>
    /\ UNCHANGED <<runvars, emvars, outvars>>

InitMesh ==
    /\ BZ_type = "full"
    /\ line = [E_dir |-> <<0, 0>>, norm |-> 0, length |-> 0, dist |-> 0]
    /\ Nk1 \in 1..MaxNk
    /\ Nk2 \in 1..MaxNk
    /\ align \in {"M", "K"}
    /\ hpc = "point"
    /\ ia1 = 0
    /\ ia2 = 0
    /\ kpoint = <<0, 0>>
    /\ mesh = <<>>
    /\ path_cur = <<>>
    /\ paths = <<>>
    /\ RunIdle

NextMesh == HexPoint \/ HexEnterLoop \/ HexReflect \/ HexExitLoop

SpecMesh == InitMesh /\ [][NextMesh]_vars

\* the loops of hex_mesh are sequential code: a step that can be taken is taken
SpecMeshFair == SpecMesh /\ WF_vars(NextMesh)

(***************************************************************************)
(* mesh(params, E_dir), one step per created k-point.  E_dir is the        *)
(* integer vector line.E_dir over its length line.norm, line.length is     *)
(* length_path_in_BZ and line.dist is 2*pi/a*rel_dist_to_Gamma; a k-point  *)
(* is held as Cartesian integers over the denominator LineDn.              *)
(***************************************************************************)
\* alpha_array = linspace(-0.5 + 1/(2 N), 0.5 - 1/(2 N), N): entry i (from
\* 0) as a numerator over AlphaDen
AlphaDen == LinDen(2 * Nk_in_path, Nk_in_path)

AlphaNum(i) == LinNum(1 - Nk_in_path, Nk_in_path - 1, Nk_in_path, i)

LineDn == line.norm * AlphaDen

\* vec_k_path = E_dir*length_path_in_BZ, times line.norm
vec_k_path == VScale(line.length, line.E_dir)

\* vec_k_ortho = 2*pi/a*rel_dist_to_Gamma*[E_dir[1], -E_dir[0]], times
\* line.norm
vec_k_ortho == VScale(line.dist, <<line.E_dir[2], -line.E_dir[1]>>)

\* (two paths on the same side of the zone center)
path_index_oneside(j) == 1

\* for path_index in [-1, 1]
path_index(j) == <<-1, 1>>[j + 1]

\* kpoint = path_index*vec_k_ortho + alpha*vec_k_path, times LineDn
LineGridPoint(j, i) ==
    VAdd(VScale(path_index(j) * AlphaDen, vec_k_ortho),
         VScale(AlphaNum(i), vec_k_path))

\* lines 279-290: one pass of the inner loop; ia2 counts the paths and ia1
\* the entries of alpha_array
LinePoint ==
    /\ hpc = "line"
    /\ LET p == LineGridPoint(ia2, ia1)
       IN  /\ kpoint' = p
           /\ mesh' = Append(mesh, p)
           /\ IF ia1 = Nk_in_path - 1
                THEN /\ paths' = Append(paths, Append(path_cur, p))
                     /\ path_cur' = <<>>
                     /\ ia1' = 0
                     /\ ia2' = ia2 + 1
                     /\ hpc' = IF ia2 = 1 THEN "done" ELSE "line"
                ELSE /\ paths' = paths
                     /\ path_cur' = Append(path_cur, p)
                     /\ ia1' = ia1 + 1
                     /\ ia2' = ia2
                     /\ hpc' = "line"
    /\ UNCHANGED <<BZ_type, line, Nk1, Nk2, align>>
    /\ UNCHANGED <<runvars, emvars, outvars>>

\* angle_inc_E_field of 0, 90 and about 53.13 degrees (cos = 3/5), and the
\* two lengths
LineSettings ==
    {[E_dir |-> e[1], norm |-> e[2], length |-> ln, dist |-> ds] :
        e \in {<<<<1, 0>>, 1>>, <<<<0, 1>>, 1>>, <<<<3, 4>>, 5>>},
        ln \in 1..2, ds \in 1..2}

\* the one a solver run is made with
LineRunSetting == [E_dir |-> <<1, 0>>, norm |-> 1, length |-> 1, dist |-> 1]

InitLine ==
    /\ BZ_type = "2line"
    /\ line \in LineSettings
    /\ Nk1 \in 1..MaxNkLine
    /\ Nk2 = 2
    /\ align = "none"
    /\ hpc = "line"
    /\ ia1 = 0
    /\ ia2 = 0
    /\ kpoint = <<0, 0>>
    /\ mesh = <<>>
    /\ path_cur = <<>>
    /\ paths = <<>>
    /\ RunIdle

NextLine == LinePoint

SpecLine == InitLine /\ [][NextLine]_vars

(***************************************************************************)
(* emission_exact: the k-points it hands to the evaluators and the terms   *)
(* it adds up.  A is the vector potential A_field[i_time].                 *)
(***************************************************************************)
\* kx_in_path_h_deriv, ky_in_path_h_deriv
emission_h_deriv_kpts(A, kpath) ==
    IF gauge = "length"
      THEN [k \in 1..Len(kpath) |-> VSub(kpath[k], VScale(A, E_dir))]
      ELSE [k \in 1..Len(kpath) |-> VSub(kpath[k], VScale(2 * A, E_dir))]

\* kx_in_path_U, ky_in_path_U
emission_U_kpts(A, kpath) ==
    IF gauge = "length"
      THEN kpath
      ELSE [k \in 1..Len(kpath) |-> VSub(kpath[k], VScale(A, E_dir))]

\* E_ort = [E_dir[1], -E_dir[0]]
E_ort == <<E_dir[2], -E_dir[1]>>

\* U_h . (h_deriv_x*e[0] + h_deriv_y*e[1]) . U  at one k-point
U_h_H_U(e, kh, ku, m) ==
    MatMul(Uf_h(ku, m),
           MatMul(MatLin(e[1], hderiv_x(kh, m), e[2], hderiv_y(kh, m)),
                  Uf(ku, m)))

\* (a term that takes the polarization from component 1, p_vc)
emission_term_pvc(M, s) ==
    CRe(M[1][1]) * CRe(s[1]) + CRe(M[2][2]) * CRe(s[4])
      + 2 * CRe(CMul(M[1][2], s[2]))

\* what one k-point adds to I[i_time]; s is solution[i_k, i_path, i_time, :]
emission_term(M, s) ==
    CRe(M[1][1]) * CRe(s[1]) + CRe(M[2][2]) * CRe(s[4])
      + 2 * CRe(CMul(M[1][2], s[3]))

RECURSIVE SumTo(_, _)
SumTo(f, n) == IF n = 0 THEN 0 ELSE f[n] + SumTo(f, n - 1)

\* the sum over i_k of one (i_time, i_path) iteration, along direction e
emission_path_sum(e, itime, ipath) ==
    LET kpath == paths[ipath + 1]
        A  == CRe(A_field[itime + 1])
        m  == zeeman_field(t[itime + 1])
        kh == emission_h_deriv_kpts(A, kpath)
        ku == emission_U_kpts(A, kpath)
        terms == [k \in 1..Len(kpath) |->
                     emission_term(U_h_H_U(e, kh[k], ku[k], m),
                                   solution[k][ipath + 1][itime + 1])]
    IN  SumTo(terms, Len(kpath))

(***************************************************************************)
(* sbe_zeeman_solver, BZ_type 'full'.                                      *)
(***************************************************************************)
\* the values a run's parameters are drawn from
Gauges == {"length", "velocity", "velocity_extra"}

\* params.gauge is any string; "unknown" stands for one that make_fnumba
\* does not compare with
GaugeTags == Gauges \cup {"unknown"}

\* <<gamma1, gamma2>> (1/T1, 1/T2)
Dampings == {<<0, 1>>, <<1, 1>>}

\* <<E0, B0, mu>>: no drive at all; a Zeeman field the bands do not couple to,
\* without and with an electric field; an electric and a Zeeman field
DriveSettings ==
    {<<0, 0, <<1, 2, 1>>>>, <<0, 1, <<0, 0, 0>>>>, <<2, 1, <<0, 0, 0>>>>,
     <<2, 1, <<1, 2, 1>>>>}

\* <<temperature, e_fermi>>: a temperature at the threshold and one above it;
\* the conduction-band energies of the evaluators lie on both sides of e_fermi
ThermalSettings == {<<1, 2>>, <<3, 2>>}

\* <<Nt, 1/(2*params.dt)>>: every state is recorded, or (over the longest
\* run) every second one
TimeSettings ==
    {<<nt, 1>> : nt \in 1..MaxNt} \cup {<<MaxNt, 2>>}

\* what an out-of-bounds read of the state vector may return
Garbage == {CZero, <<1, 1>>}

\* lines 46-137: parameters are retrieved, hex_mesh has returned, the
\* containers are created
SolverStart ==
    /\ pc = "idle"
    /\ hpc = "done"
    /\ Nk1 <= MaxNkRun
    /\ Nk2 <= MaxNkRun
    /\ BZ_type = "2line" => line = LineRunSetting
    /\ \E ga \in GaugeTags, da \in Dampings, dr \in DriveSettings,
          th \in ThermalSettings, ts \in TimeSettings :
          params' = [gauge |-> ga, gamma1 |-> da[1], gamma2 |-> da[2],
                     E0 |-> dr[1], B0 |-> dr[2], mu |-> dr[3],
                     cos_inc |-> 1, sin_inc |-> 1,
                     temperature |-> th[1], e_fermi |-> th[2],
                     Nt |-> ts[1], dt_out |-> <<ts[2], 1>>]
    /\ sys' = 1
    /\ pc' = "path"
    /\ i_path' = 1
    /\ t_constructed' = FALSE
    /\ t' = <<>>
    /\ solution' = <<>>
    /\ A_field' = <<>>
    /\ UNCHANGED <<y0, y, solver_t, success, ti, path_solution, rhs_call>>
    /\ UNCHANGED <<meshvars, emvars, outvars>>

\* lines 156-161: y0 of a path; t0 is time step 0
path_y0(path) ==
    LET m_zee == zeeman_field(0)
        ec == [k \in 1..Len(path) |-> ecf(path[k], m_zee)]
    IN  Append(initial_condition(e_fermi, temperature, ec), CZero)

\* lines 143-167: the next path; initial condition; set_initial_value
PathStart ==
    /\ pc = "path"
    /\ y0' = path_y0(paths[i_path])
    /\ y' = path_y0(paths[i_path])
    /\ path_solution' = <<>>
    /\ solver_t' = 0
    /\ success' = TRUE
    /\ ti' = 0
    /\ pc' = "time"
    /\ UNCHANGED <<params, sys, i_path, solution, t, A_field, t_constructed,
                   rhs_call>>
    /\ UNCHANGED <<meshvars, emvars, outvars>>

\* ti % dt_out == 0
\* (a loop that records after every step)
is_output_step_always(n) == TRUE

\* ti % dt_out == 0
is_output_step(n) == (n * dt_out[2]) % dt_out[1] = 0

\* (a loop that goes on after the solver has reported failure)
loop_continues_after_failure == ti < Nt

\* while solver.successful() and ti < Nt
loop_continues == success /\ ti < Nt

\* (a loop that records time and vector potential on every path)
records_time_always == TRUE

\* if not t_constructed
records_time == ~t_constructed

\* lines 795-804: the function the returned f calls, by name
freturn ==
    IF gauge = "velocity" THEN "fvelocity"
    ELSE IF gauge = "length" THEN "flength"
    ELSE IF gauge = "velocity_extra" THEN "fvelocity_extra"
    ELSE "None"

\* lines 168-187: one pass of the while loop
Integrate ==
    /\ pc = "time"
    /\ loop_continues
    /\ freturn # "None"
    /\ \E ok \in BOOLEAN, g \in Garbage :
          LET path == paths[i_path]
              yn == IF ok THEN integrate(solver_t, y, path, dk, y0, g) ELSE y
              tn == IF ok THEN solver_t + 1 ELSE solver_t
          IN  /\ y' = yn
              /\ solver_t' = tn
              /\ success' = ok
              /\ rhs_call' = [gauge |-> gauge, A |-> CRe(Last(y)),
                              kpath |-> path, kpts |-> rhs_kpts(y, path)]
              /\ IF is_output_step(ti)
                   THEN /\ path_solution' =
                              Append(path_solution, SubSeq(yn, 1, Len(yn) - 1))
                        /\ IF records_time
                             THEN /\ t' = Append(t, tn)
                                  /\ A_field' = Append(A_field, Last(yn))
                             ELSE UNCHANGED <<t, A_field>>
                   ELSE UNCHANGED <<path_solution, t, A_field>>
    /\ ti' = ti + 1
    /\ UNCHANGED <<params, sys, pc, i_path, y0, solution, t_constructed>>
    /\ UNCHANGED <<meshvars, emvars, outvars>>

\* line 174 when make_fnumba returned f with freturn = None (lines 795,
\* 806-807): the integrator calls f, f calls None, the TypeError leaves the
\* loop and the run
IntegrateRaise ==
    /\ pc = "time"
    /\ loop_continues
    /\ freturn = "None"
    /\ rhs_call' = [gauge |-> gauge, A |-> CRe(Last(y)),
                    kpath |-> paths[i_path], kpts |-> <<>>]
    /\ pc' = "raised"
    /\ UNCHANGED <<params, sys, i_path, y0, y, solver_t, success, ti,
                   path_solution, solution, t, A_field, t_constructed>>
    /\ UNCHANGED <<meshvars, emvars, outvars>>

\* lines 189-195: the while loop has ended
PathEnd ==
    /\ pc = "time"
    /\ ~loop_continues
    /\ t_constructed' = TRUE
    /\ solution' = Append(solution, path_solution)
    /\ i_path' = i_path + 1
    /\ pc' = IF i_path = Len(paths) THEN "assemble" ELSE "path"
    /\ UNCHANGED <<params, sys, y0, y, solver_t, success, ti, path_solution,
                   t, A_field, rhs_call>>
    /\ failed' = IF success THEN failed ELSE failed \cup {i_path}
    /\ UNCHANGED <<freq, files>>
    /\ UNCHANGED <<meshvars, emvars>>

\* np.array(solution) is a regular array: every path recorded as many states
is_regular(sol) == \A j \in 1..Len(sol) : Len(sol[j]) = Len(sol[1])

\* np.fft.fftfreq(n, d): the bins 0, 1, ..., (n-1)//2, -(n//2), ..., -1,
\* each times 1/(n*d); an entry is <<bin, n*d>>
fftfreq(n, d) ==
    LET N == ((n - 1) \div 2) + 1
    IN  [i \in 1..n |-> <<IF i <= N THEN i - 1 ELSE (i - 1 - N) - (n \div 2),
                          n * d>>]

\* (an axis left in the order fftfreq returns it)
fftshift_none(x) == x

\* np.fft.fftshift: the entries rolled by n//2
fftshift(x) ==
    LET n == Len(x)
    IN  [j \in 1..n |-> x[((j - 1 + n - (n \div 2)) % n) + 1]]

\* (a split that takes every n-th column instead of n blocks of columns)
array_split_strided(sol, n) ==
    [ik \in 1..n |-> [ip \in 1..Len(sol) |->
       [it \in 1..Len(sol[ip]) |-> [c \in 1..4 |->
          sol[ip][it][n * (c - 1) + ik]]]]]

\* np.array(np.array_split(solution, n, axis=2)) for a solution of 4*n
\* columns: block ik (from 1) holds the columns 4*(ik-1)+1 .. 4*ik
array_split(sol, n) ==
    [ik \in 1..n |-> [ip \in 1..Len(sol) |->
       [it \in 1..Len(sol[ip]) |-> [c \in 1..4 |->
          sol[ip][it][4 * (ik - 1) + c]]]]]

\* lines 205-208: the number of blocks
split_count == IF BZ_type = "full" THEN Nk1 ELSE Nk_in_path

\* lines 198-220: np.array, np.array_split(solution, Nk1, axis=2), t[1]-t[0],
\* the frequency axis; a ragged solution list or a time array of fewer than
\* two entries raises
Assemble ==
    /\ pc = "assemble"
    /\ IF is_regular(solution) /\ Len(t) >= 2
         THEN /\ solution' = array_split(solution, split_count)
              /\ pc' = "emission"
              /\ I_E_dir' = [n \in 1..Len(t) |-> 0]
              /\ I_ortho' = [n \in 1..Len(t) |-> 0]
              /\ freq' = fftshift(fftfreq(Len(t), t[2] - t[1]))
         ELSE /\ pc' = "raised"
              /\ UNCHANGED <<solution, I_E_dir, I_ortho, freq>>
    /\ i_time' = 0
    /\ i_pathE' = 0
    /\ UNCHANGED <<params, sys, i_path, y0, y, solver_t, success, ti,
                   path_solution, t, A_field, t_constructed, rhs_call, em_call>>
    /\ UNCHANGED <<failed, files>>
    /\ UNCHANGED meshvars

\* emission_exact: one iteration of  for i_path, path in enumerate(paths)
EmissionStep ==
    /\ pc = "emission"
    /\ LET A == CRe(A_field[i_time + 1])
           kpath == paths[i_pathE + 1]
       IN  em_call' = [gauge |-> gauge, A |-> A, kpath |-> kpath,
                       h_deriv_kpts |-> emission_h_deriv_kpts(A, kpath),
                       U_kpts |-> emission_U_kpts(A, kpath)]
    /\ I_E_dir' = [I_E_dir EXCEPT ![i_time + 1] =
                      @ + emission_path_sum(E_dir, i_time, i_pathE)]
    /\ I_ortho' = [I_ortho EXCEPT ![i_time + 1] =
                      @ + emission_path_sum(E_ort, i_time, i_pathE)]
    /\ IF i_pathE = Len(paths) - 1
         THEN /\ i_pathE' = 0
              /\ i_time' = i_time + 1
              /\ pc' = IF i_time = Len(t) - 1 THEN "done" ELSE "emission"
         ELSE /\ i_pathE' = i_pathE + 1
              /\ UNCHANGED <<i_time, pc>>
    /\ UNCHANGED <<params, sys, i_path, y0, y, solver_t, success, ti,
                   path_solution, solution, t, A_field, t_constructed,
                   rhs_call>>
    /\ UNCHANGED <<meshvars, outvars>>

\* def electric_field(t): the number of arguments the closure takes
electric_field_arity == 1

\* electric_field(E0, w, t, chirp, alpha, phase) of the save_full branch
save_full_call_args == 6

\* lines 234-256: save the observables; the flags are params.save_file and
\* params.save_full
Save ==
    /\ pc = "done"
    /\ \E save_file \in BOOLEAN, save_full \in BOOLEAN :
          LET call_ok == save_full_call_args = electric_field_arity
              written == IF ~save_file THEN <<>>
                         ELSE IF ~save_full THEN <<"Iexact", "E">>
                         ELSE IF call_ok THEN <<"Iexact", "Sol", "E">>
                         ELSE <<"Iexact">>
          IN  /\ files' = [save_file |-> save_file, save_full |-> save_full,
                           written |-> written]
              /\ pc' = IF save_file /\ save_full /\ ~call_ok
                         THEN "raised" ELSE "returned"
    /\ UNCHANGED <<params, sys, i_path, y0, y, solver_t, success, ti,
                   path_solution, solution, t, A_field, t_constructed,
                   rhs_call>>
    /\ UNCHANGED <<failed, freq>>
    /\ UNCHANGED <<meshvars, emvars>>

NextRun ==
    \/ SolverStart \/ PathStart \/ Integrate \/ IntegrateRaise \/ PathEnd
    \/ Assemble \/ EmissionStep \/ Save

\* lines 219-220 on their own: the frequency axis of a time axis of n
\* samples, the first at time step d and d steps apart
InitFreq ==
    /\ BZ_type = "full"
    /\ line = [E_dir |-> <<0, 0>>, norm |-> 0, length |-> 0, dist |-> 0]
    /\ Nk1 = 1 /\ Nk2 = 1 /\ align = "M"
    /\ hpc = "done" /\ ia1 = 0 /\ ia2 = 1
    /\ kpoint = <<0, 0>> /\ mesh = <<>> /\ path_cur = <<>> /\ paths = <<>>
    /\ params = [gauge |-> "none"] /\ sys = 0
    /\ pc = "observables"
    /\ i_path = 0 /\ y0 = <<>> /\ y = <<>> /\ solver_t = 0
    /\ success = TRUE /\ ti = 0
    /\ path_solution = <<>> /\ solution = <<>>
    /\ \E n \in 2..MaxSamples, d \in 1..MaxSpacing :
          t = [i \in 1..n |-> i * d]
    /\ A_field = <<>> /\ t_constructed = TRUE
    /\ rhs_call = [gauge |-> "none"]
    /\ i_time = 0 /\ i_pathE = 0 /\ em_call = [gauge |-> "none"]
    /\ I_E_dir = <<>> /\ I_ortho = <<>>
    /\ failed = {} /\ freq = <<>>
    /\ files = [save_file |-> FALSE, save_full |-> FALSE, written |-> <<>>]

FrequencyAxis ==
    /\ pc = "observables"
    /\ freq' = fftshift(fftfreq(Len(t), t[2] - t[1]))
    /\ pc' = "spectrum"
    /\ UNCHANGED <<params, sys, i_path, y0, y, solver_t, success, ti,
                   path_solution, solution, t, A_field, t_constructed,
                   rhs_call>>
    /\ UNCHANGED <<failed, files>>
    /\ UNCHANGED <<meshvars, emvars>>

SpecFreq == InitFreq /\ [][FrequencyAxis]_vars

Next == NextMesh \/ NextLine \/ NextRun

Init == InitMesh \/ InitLine

\* a run of sbe_zeeman_solver: hex_mesh or mesh, the path loop,
\* emission_exact, the saving
Spec == Init /\ [][Next]_vars


(***************************************************************************)
(* Claims about hex_mesh (checked under SpecMesh / SpecMeshFair).          *)
(***************************************************************************)
\* the points hex_mesh has appended so far, in the point list and the paths
MeshPoints ==
    {mesh[n] : n \in 1..Len(mesh)}
      \cup {path_cur[n] : n \in 1..Len(path_cur)}
      \cup UNION {{paths[j][n] : n \in 1..Len(paths[j])} : j \in 1..Len(paths)}

\* some grid point of the run lies outside the hexagon
SomeGridPointOutside ==
    \E i \in 0..(Nk1 - 1), j \in 0..(Nk2 - 1) :
        ~is_in_hex(GridPoint(Nk1, Nk2, align, i, j), Dn)

\* C4: every k-point hex_mesh returns, in the point list and in every path,
\* passes is_in_hex, for both alignments and every Nk1, Nk2 >= 1; the single
\* fixed shift of the 'K' alignment lands inside the hexagon.
C4_MeshValid == \A p \in MeshPoints : is_in_hex(p, Dn)

\* a finished 'K' mesh in which some grid point had to be shifted
C4_Witness ==
    /\ hpc = "done"
    /\ align = "K"
    /\ Nk1 >= 3
    /\ SomeGridPointOutside

\* C5: hex_mesh returns exactly Nk2 paths of exactly Nk1 points each and a
\* point list of Nk1*Nk2 entries, the paths laid end to end: folding neither
\* drops nor duplicates a grid point.
C5_MeshCount ==
    hpc = "done" =>
        /\ Len(paths) = Nk2
        /\ \A j \in 1..Len(paths) : Len(paths[j]) = Nk1
        /\ Len(mesh) = Nk1 * Nk2
        /\ \A j \in 1..Len(paths) : \A i \in 1..Len(paths[j]) :
               (j - 1) * Nk1 + i \in 1..Len(mesh)
                  /\ mesh[(j - 1) * Nk1 + i] = paths[j][i]

\* a finished 'M' mesh of several paths in which some point was folded
C5_Witness ==
    /\ hpc = "done"
    /\ align = "M"
    /\ Nk2 >= 2
    /\ Nk1 >= 2
    /\ SomeGridPointOutside

\* 3/r^2 times the squared distance of p to the zone centre
Dist2(p) == p[1] * p[1] + 3 * p[2] * p[2]

\* C6: the folding loop of the 'M' mesh terminates: in every iteration a
\* branch of reflect_point applies and the translation strictly reduces the
\* distance to the zone centre, and hex_mesh reaches its return.
C6_FoldTerminates ==
    /\ [][HexReflect => /\ reflect_branch(kpoint, Dn) # "none"
                        /\ Dist2(kpoint') < Dist2(kpoint)]_vars
    /\ <>(hpc = "done")

\* inside the loop, after a first translation, the point is still outside
C6_Witness ==
    /\ hpc = "reflect"
    /\ kpoint # GridPoint(Nk1, Nk2, align, ia1, ia2)
    /\ ~is_in_hex(kpoint, Dn)

(***************************************************************************)
(* Claims about the solver run (checked under Spec).                       *)
(***************************************************************************)
\* np.array_split has run: solution is the 4-axis array
assembled ==
    \/ pc \in {"emission", "done", "returned"}
    \/ pc = "raised" /\ files.save_file

\* the paths whose states are in solution, and state number it (from 1) of
\* path ip as the vector of its 4*Nk1 entries, in either shape of solution
RecordedPaths ==
    IF assembled THEN 1..Len(solution[1]) ELSE 1..Len(solution)

RecordedCount(ip) ==
    IF assembled THEN Len(solution[1][ip]) ELSE Len(solution[ip])

Recorded(ip, it) ==
    IF assembled
      THEN [j \in 1..(4 * Nk1) |->
               solution[((j - 1) \div 4) + 1][ip][it][((j - 1) % 4) + 1]]
      ELSE solution[ip][it]

\* every recorded state <<path index, state vector>>: the finished paths and
\* the path being integrated
AllRecorded ==
    UNION {{<<ip, Recorded(ip, it)>> : it \in 1..RecordedCount(ip)} :
              ip \in RecordedPaths}
      \cup (IF pc = "time"
              THEN {<<i_path, path_solution[it]>> : it \in 1..Len(path_solution)}
              ELSE {})

\* components of k-point k (from 1) of a state vector
f_v(v, k) == v[4 * (k - 1) + 1]

p_vc(v, k) == v[4 * (k - 1) + 2]

p_cv(v, k) == v[4 * (k - 1) + 3]

f_e(v, k) == v[4 * (k - 1) + 4]

\* the electric field, the Zeeman field and its derivative vanish at all times
ZeroDrive ==
    \A n \in 0..MaxNt :
        /\ electric_field(n) = 0
        /\ zeeman_field(n) = <<0, 0, 0>>
        /\ zeeman_field_derivative(n) = <<0, 0, 0>>

\* C1: in every gauge, in the initial condition, in the solver state after
\* any number of steps and in every recorded state of every path, p_cv of
\* every k-point is the complex conjugate of p_vc.
C1_Conjugate ==
    pc # "idle" =>
        /\ \A r \in AllRecorded : \A k \in 1..Nk1 :
               p_cv(r[2], k) = CConj(p_vc(r[2], k))
        /\ pc = "time" => \A k \in 1..Nk1 :
               /\ p_cv(y0, k) = CConj(p_vc(y0, k))
               /\ p_cv(y, k) = CConj(p_vc(y, k))

\* a finished length-gauge run that recorded a polarization with an
\* imaginary part
C1_Witness ==
    /\ pc = "done"
    /\ gauge = "length"
    /\ \E r \in AllRecorded : \E k \in 1..Nk1 : CIm(p_vc(r[2], k)) # 0

\* C2: with no electric field and no Zeeman field, in every gauge every
\* recorded state of every path, and the solver state after every step,
\* equals the initial condition of that path.
C2_ZeroDrive ==
    (pc # "idle" /\ ZeroDrive) =>
        /\ \A r \in AllRecorded :
               r[2] = SubSeq(path_y0(paths[r[1]]), 1, 4 * Nk1)
        /\ pc = "time" => y = y0

\* a finished run without drive, with population damping switched on, in
\* which two paths were integrated and every step was recorded
C2_Witness ==
    /\ pc = "done"
    /\ ZeroDrive
    /\ gamma1 > 0
    /\ Len(paths) = 2
    /\ Len(t) = Nt

\* C3: with gamma1 = 0 and no electric and no Zeeman field, f_v + f_e of
\* every k-point of every path is at every recorded time what it is in the
\* initial condition, in every gauge.
C3_OccupationConserved ==
    (pc # "idle" /\ gamma1 = 0 /\ ZeroDrive) =>
        \A r \in AllRecorded : \A k \in 1..Nk1 :
            CAdd(f_v(r[2], k), f_e(r[2], k))
              = CAdd(f_v(path_y0(paths[r[1]]), k), f_e(path_y0(paths[r[1]]), k))

\* a finished run without population damping and without drive that started
\* from a thermally occupied conduction band
C3_Witness ==
    /\ pc = "done"
    /\ gamma1 = 0
    /\ gamma2 > 0
    /\ ZeroDrive
    /\ temperature > TempThreshold
    /\ Len(t) = Nt

\* C7 (as claimed): the initial conduction-band occupation is the
\* Fermi-Dirac value when the temperature is above the threshold, and
\* otherwise a step function: occupied where e_c < e_fermi, empty where
\* e_c > e_fermi.
C7_StepFunction ==
    pc = "time" =>
        \A k \in 1..Nk1 :
            LET e_c == ecf(paths[i_path][k], zeeman_field(0))
            IN  IF temperature > TempThreshold
                  THEN f_e(y0, k) = CReal(fermi_dirac(e_fermi, temperature, e_c))
                  ELSE /\ e_c < e_fermi => f_e(y0, k) = CReal(One)
                       /\ e_c > e_fermi => f_e(y0, k) = CZero

\* the state vector with the entries of every k-point but k (from 0) changed;
\* the trailing vector potential is kept
OthersPerturbed(v, k) ==
    [j \in 1..Len(v) |->
        IF j = Len(v) \/ (j - 1) \div 4 = k THEN v[j]
                                             ELSE CAdd(v[j], <<1, 1>>)]

\* C8: the velocity-gauge RHS hands one and the same k-points to the energy
\* and the dipole evaluators: the path k-points shifted along E_dir by minus
\* one times the vector potential; and the derivative of a k-point does not
\* depend on the state of the other k-points of the path.
C8_VelocitySingleShift ==
    /\ rhs_call.gauge = "velocity" =>
           rhs_call.kpts =
               [k \in 1..Len(rhs_call.kpath) |->
                   VSub(rhs_call.kpath[k], VScale(rhs_call.A, E_dir))]
    /\ (pc = "time" /\ gauge = "velocity") =>
           \A k \in 0..(Nk1 - 1) :
               fvelocity_block(solver_t, y, paths[i_path], dk, y0, k)
                 = fvelocity_block(solver_t, OthersPerturbed(y, k),
                                   paths[i_path], dk, y0, k)

\* the velocity-gauge RHS was called with a nonzero vector potential on a
\* path of two k-points
C8_Witness ==
    /\ rhs_call.gauge = "velocity"
    /\ rhs_call.A # 0
    /\ Len(rhs_call.kpath) = 2

\* C8 (as claimed): the velocity-gauge RHS evaluates energies and dipoles at
\* the path k-points shifted by twice the vector potential.
C8_DoubleShift ==
    rhs_call.gauge = "velocity" =>
        rhs_call.kpts =
            [k \in 1..Len(rhs_call.kpath) |->
                VSub(rhs_call.kpath[k], VScale(2 * rhs_call.A, E_dir))]

\* C9 (as claimed): in every gauge emission_exact evaluates the
\* band-derivative operator and the eigenbasis transform at the k-points the
\* RHS of that gauge evaluates for the same vector potential.
C9_EmissionShiftMatchesRHS ==
    em_call.gauge # "none" =>
        /\ em_call.h_deriv_kpts = rhs_kpts(<<CReal(em_call.A)>>, em_call.kpath)
        /\ em_call.U_kpts = rhs_kpts(<<CReal(em_call.A)>>, em_call.kpath)

\* C10: with mu = (0, 0, 0), on every state a 'velocity' or 'velocity_extra'
\* run passes through, fvelocity and fvelocity_extra return the same
\* derivative (so both runs take the same steps from the same initial
\* condition, and emission_exact, which has one branch for both, gets the
\* same solution).
C10_GaugeEquivalence ==
    (pc = "time" /\ gauge \in {"velocity", "velocity_extra"}
                 /\ mu = <<0, 0, 0>>) =>
        fvelocity(solver_t, y, paths[i_path], dk, y0)
          = fvelocity_extra(solver_t, y, paths[i_path], dk, y0)

\* a 'velocity_extra' run with mu = 0 in a Zeeman field of nonzero rate of
\* change, after steps that built up a polarization
C10_Witness ==
    /\ pc = "time"
    /\ gauge = "velocity_extra"
    /\ mu = <<0, 0, 0>>
    /\ B0 # 0
    /\ time_dep_deriv(solver_t) # 0
    /\ \E k \in 1..Nk1 : p_vc(y, k) # CZero

(***************************************************************************)
(* Claims about solver failure, recording and assembly (under Spec).       *)
(***************************************************************************)
\* the states n successful steps lead to from the initial condition of a
\* path, whatever happened on the paths before it (a set: the length-gauge
\* RHS of a one-point path reads past the end of the state)
RECURSIVE TrajSet(_, _)
TrajSet(path, n) ==
    IF n = 0 THEN {path_y0(path)}
    ELSE {integrate(n - 1, yv, path, dk, path_y0(path), g) :
             yv \in TrajSet(path, n - 1), g \in Garbage}

\* C11: after a step the solver reports as failed no further integrate call
\* is made for the path (the step is not retried: the loop is left with the
\* state as it is); every path is started at t0 with success, step counter 0
\* and its own initial condition with vector potential 0; and the state of a
\* path after ti steps is what ti steps from that initial condition give,
\* whether or not an earlier path failed.
C11_FailureIsolated ==
    /\ [](pc = "time" =>
            IF success
              THEN /\ solver_t = ti
                   /\ y \in TrajSet(paths[i_path], ti)
              ELSE /\ ti >= 1
                   /\ y \in TrajSet(paths[i_path], ti - 1))
    /\ [][(pc = "time" /\ ~success) =>
             (pc' # "time" /\ UNCHANGED <<y, solver_t, ti, path_solution>>)]_vars
    /\ [][PathStart =>
             /\ success' /\ solver_t' = 0 /\ ti' = 0
             /\ y' = path_y0(paths[i_path])
             /\ Last(y') = CZero]_vars

\* the second path, two successful steps into a driven run, after the
\* first path was cut short by a failure
C11_Witness ==
    /\ pc = "time"
    /\ i_path = 2
    /\ success
    /\ ti >= 2
    /\ E0 # 0
    /\ dt_out = <<1, 1>>
    /\ Len(solution[1]) < Nt

\* ---------------------------------------------------------------------------
\* Claim C12
\* ---------------------------------------------------------------------------

\* the number of states a path records when none of its Nt steps fails
ExpectedRecords == Cardinality({n \in 0..(Nt - 1) : is_output_step(n)})

\* line 195: what the run prints when a path's loop has ended, the shape of
\* path_solution; its first entry is the number of recorded states
printed_shape(ip) == <<RecordedCount(ip), 4 * Nk1>>

\* C12: when the solver fails on a path, the run surfaces a diagnostic that
\* identifies the failing path (what it prints for a failed path differs from
\* what it prints for a path that completed), and the failed path's values
\* do not pass into the emission stage (no run with a failed path is
\* assembled and handed to emission_exact).
C12_FailureSurfaced ==
    /\ (pc \in {"path", "time", "assemble"}) =>
          \A j \in failed :
              printed_shape(j) # <<ExpectedRecords, 4 * Nk1>>
    /\ assembled => failed = {}

\* ---------------------------------------------------------------------------
\* Claim C13
\* ---------------------------------------------------------------------------

\* C13: a gauge tag outside {length, velocity, velocity_extra} is rejected
\* at startup: once the parameters are read and make_fnumba has been called,
\* a run with such a tag has raised, and it has started no path (no initial
\* condition set) and made no integrate call (the RHS was never called).
C13_RejectedAtStartup ==
    (pc # "idle" /\ gauge \notin Gauges) =>
        /\ pc = "raised"
        /\ y = <<>>
        /\ rhs_call.gauge = "none"

\* ---------------------------------------------------------------------------
\* Claim C14
\* ---------------------------------------------------------------------------

\* the number of states recorded for the first path so far
FirstPathCount ==
    IF assembled \/ Len(solution) >= 1 THEN RecordedCount(1)
                                       ELSE Len(path_solution)

\* the step index of the n-th output step (n from 1)
StepOfRecord(n) ==
    CHOOSE k \in 0..(Nt - 1) :
        /\ is_output_step(k)
        /\ Cardinality({j \in 0..k : is_output_step(j)}) = n

\* the vector potential after n successful steps from A = 0: dA/dt = -E
RECURSIVE PotentialAt(_)
PotentialAt(n) ==
    IF n = 0 THEN 0 ELSE PotentialAt(n - 1) - electric_field(n - 1)

\* C14: t and A_field are appended to only while the first path is
\* integrated, one entry at a time and at the end; no step of a later path
\* or of the assembly, emission or saving changes them; at every moment
\* they hold one entry per state recorded for the first path, the n-th entry
\* being the solver time and the vector potential of the n-th output step.
C14_TimeAxisFromFirstPath ==
    /\ [](/\ Len(t) = FirstPathCount
          /\ Len(A_field) = FirstPathCount
          /\ \A n \in 1..Len(t) :
                /\ \/ t[n] = StepOfRecord(n) + 1
                   \/ /\ n = Len(t)
                      /\ t[n] = StepOfRecord(n)
                      /\ 1 \in failed \/ (i_path = 1 /\ ~success)
                /\ A_field[n] = CReal(PotentialAt(t[n])))
    /\ [][(t' # t \/ A_field' # A_field) =>
             /\ pc = "time" /\ i_path = 1
             /\ Len(t') = Len(t) + 1
             /\ SubSeq(t', 1, Len(t)) = t
             /\ SubSeq(A_field', 1, Len(A_field)) = A_field
             /\ Len(path_solution') = Len(path_solution) + 1]_vars

\* C14 (witness): the second path is being integrated and has recorded two
\* states of a driven run, and the series hold the entries of the first
\* path, with a vector potential that changed between them
C14_Witness ==
    /\ pc = "time" /\ i_path = 2
    /\ Len(path_solution) >= 2
    /\ Len(t) >= 2 /\ Len(t) = Len(solution[1])
    /\ A_field[1] # A_field[2]

\* ---------------------------------------------------------------------------
\* Claim C15
\* ---------------------------------------------------------------------------

\* step index k is a whole multiple of the stride dt_out
MultipleOfStride(k) == \E q \in 0..k : q * dt_out[1] = k * dt_out[2]

C16_AssembledLayout ==
    /\ [][(pc = "assemble" /\ pc' = "emission") =>
             /\ Len(solution') = Len(paths[1])
             /\ \A ik \in 1..Len(solution') :
                   /\ Len(solution'[ik]) = Len(paths)
                   /\ \A ip \in 1..Len(paths) :
                         /\ Len(solution'[ik][ip]) = Len(solution[ip])
                         /\ \A it \in 1..Len(solution[ip]) :
                               solution'[ik][ip][it] =
                                   <<f_v(solution[ip][it], ik),
                                     p_vc(solution[ip][it], ik),
                                     p_cv(solution[ip][it], ik),
                                     f_e(solution[ip][it], ik)>>]_vars
    /\ [][(pc = "time" /\ pc' \in {"path", "assemble"}) =>
             /\ Len(solution') = i_path
             /\ solution'[i_path] = path_solution
             /\ SubSeq(solution', 1, i_path - 1) = solution]_vars

\* C16 (witness): a two-line run with two k-points per path is assembled,
\* and the two k-points of the second path differ in a recorded state
C16_Witness ==
    /\ BZ_type = "2line" /\ Nk_in_path = 2
    /\ pc = "emission"
    /\ \E it \in 1..Len(t) : solution[1][2][it] # solution[2][2][it]

\* ---------------------------------------------------------------------------
\* Claim C17
\* ---------------------------------------------------------------------------

\* entries i and j of the frequency axis, as rationals over a positive
\* denominator: freq[i] < freq[j], freq[i] = -freq[j]
FreqLess(i, j) == freq[i][1] * freq[j][2] < freq[j][1] * freq[i][2]

FreqOpposite(i, j) == freq[i][1] * freq[j][2] = -(freq[j][1] * freq[i][2])

\* the sample spacing dt_out = t[1] - t[0] the axis was made with is positive
FreqDefined == Len(freq) >= 2 /\ t[2] - t[1] > 0

\* C17 (as amended): for n >= 2 recorded times with a positive spacing d
\* the frequency axis has n entries k/(n*d), is strictly increasing and
\* contains zero; for odd n it contains -f whenever it contains f; for even
\* n its first entry is -1/(2*d), whose negative is not on the axis, and
\* every other entry has its negative on the axis.
C17_FrequencyAxis ==
    FreqDefined =>
        LET n == Len(freq)
        IN  /\ n = Len(t)
            /\ \A j \in 1..n : freq[j][2] = n * (t[2] - t[1])
            /\ \A j \in 1..(n - 1) : FreqLess(j, j + 1)
            /\ \E j \in 1..n : freq[j][1] = 0
            /\ \A j \in 1..n :
                  IF n % 2 = 0 /\ j = 1
                    THEN /\ 2 * freq[1][1] = -n
                         /\ ~ \E i \in 1..n : FreqOpposite(i, 1)
                    ELSE \E i \in 1..n : FreqOpposite(i, j)

\* C17 (witness): an axis for an even and large number of samples
C17_Witness ==
    /\ FreqDefined
    /\ Len(freq) = MaxSamples - 2
    /\ Len(freq) % 2 = 0
    /\ t[2] - t[1] = 2

\* C17 (as claimed): for every n >= 2 the axis is strictly increasing,
\* contains zero, and contains -f whenever it contains f.
C17_Symmetric ==
    FreqDefined =>
        LET n == Len(freq)
        IN  /\ \A j \in 1..(n - 1) : FreqLess(j, j + 1)
            /\ \E j \in 1..n : freq[j][1] = 0
            /\ \A j \in 1..n : \E i \in 1..n : FreqOpposite(i, j)

\* ---------------------------------------------------------------------------
\* Claim C18
\* ---------------------------------------------------------------------------

\* position of bundle b in the sequence of bundles written (0: not written)
WrittenAt(b) ==
    IF \E i \in 1..Len(files.written) : files.written[i] = b
      THEN CHOOSE i \in 1..Len(files.written) : files.written[i] = b
      ELSE 0

\* C18: when save_file and save_full are both set, the run writes the
\* summary bundle ("Iexact") and then the second bundle ("Sol": time axis,
\* solution, paths, electric-field samples), and completes without raising.
C18_FullSaveCompletes ==
    (files.save_file /\ files.save_full) =>
        /\ pc = "returned"
        /\ WrittenAt("Iexact") >= 1
        /\ WrittenAt("Sol") > WrittenAt("Iexact")

\* ---------------------------------------------------------------------------
\* Claim C19 (checked under SpecLine)
\* ---------------------------------------------------------------------------

\* coordinates of a k-point along E_dir and along [E_dir[1], -E_dir[0]], in
\* units of 1/(line.norm*LineDn)
Along(p) == p[1] * line.E_dir[1] + p[2] * line.E_dir[2]

Perp(p) == p[1] * line.E_dir[2] - p[2] * line.E_dir[1]

\* C19: the two-line mesh returns exactly two paths of Nk_in_path points
\* each (and the 2*Nk_in_path points as one list); all points of a path
\* have the same perpendicular coordinate, so they lie on a line parallel
\* to E_dir; the perpendicular coordinates of the two paths are the
\* configured distance with opposite signs; the along-field coordinates of
\* a path are strictly increasing and the j-th is the negative of the
\* (Nk_in_path-1-j)-th.
C19_TwoLines ==
    (BZ_type = "2line" /\ hpc = "done") =>
        /\ Len(paths) = 2
        /\ Len(mesh) = 2 * Nk_in_path
        /\ \A j \in 1..Len(paths) :
              /\ Len(paths[j]) = Nk_in_path
              /\ \A i \in 1..Len(paths[j]) :
                    /\ Perp(paths[j][i]) = Perp(paths[j][1])
                    /\ Along(paths[j][i]) =
                          -Along(paths[j][Nk_in_path + 1 - i])
                    /\ i > 1 => Along(paths[j][i - 1]) < Along(paths[j][i])
        /\ Perp(paths[1][1]) = -Perp(paths[2][1])
        /\ Abs(Perp(paths[1][1])) = line.dist * line.norm * LineDn
        /\ Perp(paths[1][1]) # Perp(paths[2][1])

\* C19 (witness): a finished mesh of two lines of four points each along a
\* field direction that is not an axis
C19_Witness ==
    /\ BZ_type = "2line" /\ hpc = "done"
    /\ Nk_in_path = 4
    /\ line.E_dir = <<3, 4>>
    /\ Len(paths) = 2 /\ Len(paths[2]) = 4

\* ---------------------------------------------------------------------------
\* Claim C20
\* ---------------------------------------------------------------------------

\* (2*pi/(3*a))^2 as <<numerator, denominator>>, the square of the length
\* of one unit of the X coordinate of hex_mesh, for two lattice constants:
\* a = 4*pi/sqrt(3), where |b1| = 1, and a = 2*pi/3
UnitSqChoices == {<<1, 12>>, <<1, 1>>}

\* the vector from generated point i to generated point i + 1 (from 0) of
\* path j, before folding, times the denominator of the mesh
GeneratedStep(j, i) ==
    IF BZ_type = "2line"
      THEN VSub(LineGridPoint(j, i + 1), LineGridPoint(j, i))
      ELSE VSub(GridPoint(Nk1, Nk2, align, i + 1, j),
                GridPoint(Nk1, Nk2, align, i, j))

\* dk^2 equals the squared length of the step st; u is the squared unit
\* ('full': X in units of 2*pi/(3*a), Y in units of sqrt(3) times that)
DkIsLengthOf(st, u) ==
    IF BZ_type = "2line"
      THEN (st[1] * st[1] + st[2] * st[2]) * dk[2] * dk[2]
              = dk[1] * dk[1] * LineDn * LineDn
      ELSE u[1] * (st[1] * st[1] + 3 * st[2] * st[2]) * dk[2] * dk[2]
              = u[2] * dk[1] * dk[1] * Dn * Dn

\* C20: the dk handed to the RHS equals the distance between consecutive
\* k-points of every path as generated (before folding), for the hexagonal
\* mesh (whatever the lattice constant) and for the two-line mesh.
C20_DkIsSpacing ==
    hpc = "done" =>
        \A j \in 0..(Nk2 - 1), i \in 0..(Nk1 - 2), u \in UnitSqChoices :
            DkIsLengthOf(GeneratedStep(j, i), u)

\* ---------------------------------------------------------------------------
\* Claim C21
\* ---------------------------------------------------------------------------

\* the indices of y that flength reads for the finite-difference term of
\* k-point k
DifferenceReads(k, Nk_path) ==
    LET m == neighbour_m(k, Nk_path)
        n == neighbour_n(k, Nk_path)
    IN  {m, m + 1, m + 3, n, n + 1, n + 3}

\* C21: in every call of the length-gauge RHS, for every k-point k of the
\* path, the forward neighbour is k-point (k+1) mod Nk_path, the backward
\* neighbour is (k-1) mod Nk_path, and every index read for the
\* finite-difference term is one of the 4*Nk_path density entries (the
\* vector potential is entry 4*Nk_path).
C21_RingNeighbours ==
    rhs_call.gauge = "length" =>
        LET Nk_path == Len(rhs_call.kpath)
        IN  \A k \in 0..(Nk_path - 1) :
                /\ neighbour_m(k, Nk_path) = 4 * ((k + 1) % Nk_path)
                /\ neighbour_n(k, Nk_path) = 4 * ((k + Nk_path - 1) % Nk_path)
                /\ \A j \in DifferenceReads(k, Nk_path) :
                       j >= 0 /\ j < 4 * Nk_path

\* ---------------------------------------------------------------------------
\* Claim C22
\* ---------------------------------------------------------------------------

\* Re(M_00)*Re(f_v) + Re(M_11)*Re(f_e) + 2*Re(M_01*p_cv) of k-point ik of
\* path ip at recorded time n (all from 1), M projected on direction e
PointEmission(e, n, ip, ik) ==
    LET A  == CRe(A_field[n])
        kh == emission_h_deriv_kpts(A, paths[ip])[ik]
        ku == emission_U_kpts(A, paths[ip])[ik]
        M  == U_h_H_U(e, kh, ku, zeeman_field(t[n]))
        s  == solution[ik][ip][n]
    IN  CRe(M[1][1]) * CRe(s[1]) + CRe(M[2][2]) * CRe(s[4])
          + 2 * (CRe(M[1][2]) * CRe(s[3]) - CIm(M[1][2]) * CIm(s[3]))

\* the sum of PointEmission over the first q k-points, counted path after
\* path
RECURSIVE EmissionSum(_, _, _)
EmissionSum(e, n, q) ==
    IF q = 0 THEN 0
    ELSE LET Nk == Len(paths[1])
         IN  EmissionSum(e, n, q - 1)
               + PointEmission(e, n, ((q - 1) \div Nk) + 1, ((q - 1) % Nk) + 1)

\* the number of k-points whose terms sample n holds at this moment
Accumulated(n) ==
    IF pc # "emission" \/ n <= i_time THEN Len(paths) * Len(paths[1])
    ELSE IF n = i_time + 1 THEN i_pathE * Len(paths[1])
    ELSE 0

\* C22: once emission_exact has started, the two series have one entry per
\* recorded time; a sample whose time index is done is the sum of the
\* terms Re(M_00)*Re(f_v) + Re(M_11)*Re(f_e) + 2*Re(M_01*p_cv) over every
\* k-point of every path, in the field direction for I_E_dir and in the
\* orthogonal direction for I_ortho; the sample in progress is the sum
\* over the paths done so far and a sample not yet reached is zero; an
\* iteration changes no sample but that of its own time index.
C22_EmissionSum ==
    /\ [](assembled =>
            /\ Len(I_E_dir) = Len(t)
            /\ Len(I_ortho) = Len(t)
            /\ \A n \in 1..Len(t) :
                  /\ I_E_dir[n] = EmissionSum(E_dir, n, Accumulated(n))
                  /\ I_ortho[n] = EmissionSum(E_ort, n, Accumulated(n)))
    /\ [][pc = "emission" =>
             \A n \in 1..Len(t) :
                 n # i_time + 1 =>
                     /\ I_E_dir'[n] = I_E_dir[n]
                     /\ I_ortho'[n] = I_ortho[n]]_vars

\* C22 (witness): emission_exact has finished a driven run over two paths
\* of two k-points with a complex polarization, and both series are
\* nonzero
C22_Witness ==
    /\ pc = "done"
    /\ Len(paths) = 2 /\ Len(paths[1]) = 2
    /\ \E n \in 1..Len(t) :
          /\ I_E_dir[n] # 0
          /\ I_ortho[n] # 0
          /\ CIm(solution[2][2][n][3]) # 0

\* ---------------------------------------------------------------------------
\* Claim C23
\* ---------------------------------------------------------------------------

\* C23: when the path loop has ended, in runs with and without solver
\* failures, there is one list of recorded states per path and each is as
\* long as the time axis t, so the list of path solutions is rectangular.
C23_Rectangular ==
    pc = "assemble" =>
        /\ Len(solution) = Len(paths)
        /\ \A j \in 1..Len(solution) : Len(solution[j]) = Len(t)
        /\ is_regular(solution)

\* ---------------------------------------------------------------------------
\* Claim C24 (checked under SpecMesh)
\* ---------------------------------------------------------------------------

\* p and q (over the denominator Dn) differ by n1*b1 + n2*b2 with integers
\* n1, n2: the X difference is 3*n1*Dn and the Y difference (2*n2 - n1)*Dn
LatticeEquivalent(p, q) ==
    LET dx == p[1] - q[1]
        dy == p[2] - q[2]
    IN  /\ dx % (3 * Dn) = 0
        /\ dy % Dn = 0
        /\ ((dy \div Dn) + (dx \div (3 * Dn))) % 2 = 0

\* the Monkhorst-Pack grid point the n-th appended point (from 1) was
\* made from
UnfoldedPoint(n) ==
    GridPoint(Nk1, Nk2, align, (n - 1) % Nk1, (n - 1) \div Nk1)

\* C24: every k-point hex_mesh has appended, and the point in the reflect
\* loop after any number of translations, differs from its unfolded grid
\* point by an integer combination of b1 and b2; a grid point inside the
\* hexagon is appended unchanged.
C24_FoldingEquivalent ==
    BZ_type = "full" =>
        /\ \A n \in 1..Len(mesh) :
              /\ LatticeEquivalent(mesh[n], UnfoldedPoint(n))
              /\ is_in_hex(UnfoldedPoint(n), Dn) => mesh[n] = UnfoldedPoint(n)
        /\ hpc = "reflect" =>
              LatticeEquivalent(kpoint,
                                GridPoint(Nk1, Nk2, align, ia1, ia2))
        /\ \A j \in 1..Len(paths) : \A i \in 1..Len(paths[j]) :
              LatticeEquivalent(paths[j][i],
                                GridPoint(Nk1, Nk2, align, i - 1, j - 1))

\* C24 (witness): a finished 'K' mesh with a shifted point
C24_Witness ==
    /\ hpc = "done" /\ align = "K"
    /\ \E n \in 1..Len(mesh) : mesh[n] # UnfoldedPoint(n)

\* C24 (second witness): a finished 'M' mesh one of whose points was moved
C24_WitnessM ==
    /\ hpc = "done" /\ align = "M"
    /\ \E n \in 1..Len(mesh) : mesh[n] # UnfoldedPoint(n)


====
